---- MODULE Spec2Model ----
(***************************************************************************)
(* A model of src/livedocx.py: the LiveDocx client wrapper.                *)
(*                                                                         *)
(* Every public method is one action (the client is synchronous and        *)
(* single-threaded).  An action records the method and its arguments in    *)
(* op/args, the remote calls it issued, in order, in calls, and the        *)
(* exception it left with (or NoError) in raised.  The remote service is   *)
(* an external collaborator: its answers and its faults are inputs.        *)
(*                                                                         *)
(* Python text the code takes apart (paths, formats) is a sequence of      *)
(* one-character strings, so that upper() and os.path.splitext() are       *)
(* computed; text the code only stores or forwards is a TLA+ string.       *)
(* A Python dict whose iteration order the code depends on is a sequence   *)
(* of <<key, value>> pairs in that dict's iteration order.                 *)
(***************************************************************************)
EXTENDS Integers, Sequences, FiniteSets, TLC

VARIABLES field_values, block_field_values, op, args, calls, raised

vars == <<field_values, block_field_values, op, args, calls, raised>>

staging == <<field_values, block_field_values>>

\* ------------------------------------------------------------------ bounds

\* The most rows staged at one time, over all block names.
MaxRows == 2

\* ------------------------------------------------------------ Python values

\* Text the code inspects: the letters str.upper() maps.
LowerLetters == <<"a","b","c","d","e","f","g","h","i","j","k","l","m",
                  "n","o","p","q","r","s","t","u","v","w","x","y","z">>

UpperLetters == <<"A","B","C","D","E","F","G","H","I","J","K","L","M",
                  "N","O","P","Q","R","S","T","U","V","W","X","Y","Z">>

UpperChar(c) ==
    IF \E i \in 1..Len(LowerLetters) : LowerLetters[i] = c
    THEN UpperLetters[CHOOSE i \in 1..Len(LowerLetters) : LowerLetters[i] = c]
    ELSE c

\* str.upper()
Upper(s) == [i \in 1..Len(s) |-> UpperChar(s[i])]

\* The exceptions an operation can leave with.
NoError == [type |-> "none", msg |-> ""]

LiveDocxError(m) == [type |-> "LiveDocxError", msg |-> m]

\* What the suds transport can raise from a remote call: a SOAP fault sent
\* by the service (suds.WebFault, whatever the service's reason), or any
\* other failure of the transport.
Faults ==
    { [type |-> "WebFault", msg |-> "server fault"],
      [type |-> "TransportError", msg |-> "connection failed"] }

\* LogIn can also be answered by the SOAP fault that rejects the credentials.
LoginFaults ==
    Faults \cup { [type |-> "WebFault", msg |-> "authentication failed"] }

\* All orders in which a dict with key set S can iterate.
Orders(S) ==
    { s \in [1..Cardinality(S) -> S] :
        \A i, j \in 1..Cardinality(S) : s[i] = s[j] => i = j }

\* ------------------------------------------------------------ staged values

Keys == {"k1", "k2"}

Scalars == {"John", "Sam"}

Cols == {"a", "i"}

\* The row dicts callers stage: one value per column.
RowDicts == { [c \in Cols |-> IF c = "a" THEN "x" ELSE "y"] }

\* A row dict together with its iteration order (CPython 2 dicts iterate in
\* hash-slot order, which for colliding keys such as 'a' and 'i' is the
\* insertion order): the sequence of its items.
Rows ==
    UNION { { [n \in 1..Len(o) |-> <<o[n], d[o[n]]>>] : o \in Orders(Cols) }
            : d \in RowDicts }

\* dict.keys() and dict.values() of a row: both in the row's iteration order.
RowKeys(row) == [n \in 1..Len(row) |-> row[n][1]]

RowValues(row) == [n \in 1..Len(row) |-> row[n][2]]

RowLists == UNION { [1..n -> Rows] : n \in 0..MaxRows }

\* Python values passed to assign(): tagged by their type().
PyStr(s) == [type |-> "str", v |-> s]

PyList(l) == [type |-> "list", v |-> l]

PyDict(d) == [type |-> "dict", v |-> d]

AssignValues == {PyStr(s) : s \in Scalars} \cup {PyList(l) : l \in RowLists}

\* The number of rows of the lists in a dict of assign() values.
RECURSIVE ListRows(_, _)
ListRows(d, keys) ==
    IF keys = {} THEN 0
    ELSE LET k == CHOOSE x \in keys : TRUE
         IN  (IF d[k].type = "list" THEN Len(d[k].v) ELSE 0)
                 + ListRows(d, keys \ {k})

AssignData ==
    {PyStr("not a dict"), PyList(<<>>)}
        \cup {PyDict(d) : d \in { e \in UNION { [D -> AssignValues] : D \in SUBSET Keys } :
                                     ListRows(e, DOMAIN e) <= MaxRows }}

\* d[key] = value on a dict modelled as a function.
DictSet(d, key, value) ==
    [k \in (DOMAIN d) \cup {key} |-> IF k = key THEN value ELSE d[k]]

EmptyDict == [k \in {} |-> ""]

\* --------------------------------------------------------- staging methods

\* The effect of one operation that issues no remote call.
Local(name, a, err) ==
    /\ op' = name
    /\ args' = a
    /\ calls' = <<>>
    /\ raised' = err

assign_value(key, value) ==
    /\ field_values' = DictSet(field_values, key, value)
    /\ UNCHANGED block_field_values
    /\ Local("assign_value", <<key, value>>, NoError)

assign_block(key, values) ==
    /\ block_field_values' = DictSet(block_field_values, key, values)
    /\ UNCHANGED field_values
    /\ Local("assign_block", <<key, values>>, NoError)

\* assign() that stores a value only under a key not staged yet (as with
\* dict.setdefault), so an earlier entry is not replaced.
RECURSIVE AssignLoopKeepExisting(_, _, _, _)
AssignLoopKeepExisting(fv, bv, d, order) ==
    IF order = <<>> THEN <<fv, bv>>
    ELSE LET key == Head(order)
             value == d[key]
         IN  IF value.type = "list"
             THEN AssignLoopKeepExisting(
                      fv, IF key \in DOMAIN bv THEN bv ELSE DictSet(bv, key, value.v),
                      d, Tail(order))
             ELSE AssignLoopKeepExisting(
                      IF key \in DOMAIN fv THEN fv ELSE DictSet(fv, key, value.v), bv,
                      d, Tail(order))

\* The loop of assign() over data.iteritems(), taken in the order `order`:
\* the staging mappings <<field values, block values>> it leaves.
RECURSIVE AssignLoop(_, _, _, _)
AssignLoop(fv, bv, d, order) ==
    IF order = <<>> THEN <<fv, bv>>
    ELSE LET key == Head(order)
             value == d[key]
         IN  IF value.type = "list"
             THEN AssignLoop(fv, DictSet(bv, key, value.v), d, Tail(order))
             ELSE AssignLoop(DictSet(fv, key, value.v), bv, d, Tail(order))

assign(data, order) ==
    IF data.type # "dict"
    THEN /\ UNCHANGED staging
         /\ Local("assign", <<data>>,
                  [type |-> "ValueError", msg |-> "Passed data must be a dictionary"])
    ELSE /\ order \in Orders(DOMAIN data.v)
         /\ LET r == AssignLoop(field_values, block_field_values, data.v, order)
            IN  /\ field_values' = r[1]
                /\ block_field_values' = r[2]
         /\ Local("assign", <<data>>, NoError)

\* ------------------------------------------------------- document creation

\* An entry of the log of remote calls: the operation and its arguments,
\* what the service returned where the code looks at it (ret), and the
\* exception the call raised (fault; NoError when it returned).
Call(name, a) == [name |-> name, args |-> a, ret |-> "", fault |-> NoError]

\* A call the service answered with `answer` (see Answer below).
Answered(call, answer) == [call EXCEPT !.ret = answer.value, !.fault = answer.fault]

\* A call that raised `fault` (or returned, when fault = NoError).
Outcome(call, fault) == [call EXCEPT !.fault = fault]

\* The first `issued` calls of `all`, the failAt-th of which raised `fault`.
Issued(all, issued, failAt, fault) ==
    [n \in 1..issued |-> IF n = failAt THEN Outcome(all[n], fault) ELSE all[n]]

\* _set_field_values: one SetFieldValues call carrying keys() and values()
\* of the field mapping, both in the mapping's iteration order `korder`.
_set_field_values(fv, korder) ==
    << Call("SetFieldValues",
            << korder, [n \in 1..Len(korder) |-> fv[korder[n]]] >>) >>

\* The ArrayOfArrayOfString built for one block: block[0].keys(), then
\* item.values() of every item.
BlockData(block) ==
    <<RowKeys(block[1])>> \o [n \in 1..Len(block) |-> RowValues(block[n])]

\* _set_multi_field_values over the block mapping's items() in the order
\* `border`: the SetBlockFieldValues calls it issues, and the exception that
\* stops it (block[0] of an empty list raises IndexError).
RECURSIVE _set_multi_field_values(_, _)
_set_multi_field_values(bv, border) ==
    IF border = <<>> THEN [calls |-> <<>>, err |-> NoError]
    ELSE LET block_key == Head(border)
             block == bv[block_key]
         IN  IF block = <<>>
             THEN [calls |-> <<>>,
                   err |-> [type |-> "IndexError", msg |-> "list index out of range"]]
             ELSE LET rest == _set_multi_field_values(bv, Tail(border))
                  IN  [calls |-> <<Call("SetBlockFieldValues",
                                        <<block_key, BlockData(block)>>)>>
                                     \o rest.calls,
                       err |-> rest.err]

\* The remote calls create_document makes before it clears the mappings.
SetCalls(fv, bv, korder, border) ==
    (IF Cardinality(DOMAIN fv) > 0 THEN _set_field_values(fv, korder) ELSE <<>>)
        \o (IF Cardinality(DOMAIN bv) > 0
            THEN _set_multi_field_values(bv, border).calls ELSE <<>>)

SetError(bv, border) ==
    IF Cardinality(DOMAIN bv) > 0
    THEN _set_multi_field_values(bv, border).err ELSE NoError

\* create_document that never resets the mappings.
ClearsNever(setCalls, setErr, issued, failed) == FALSE

\* create_document that resets the mappings on every path (as in a finally).
ClearsAlways(setCalls, setErr, issued, failed) == TRUE

\* Whether create_document reaches lines 70-71, given that its first
\* `issued` remote calls were made and `failed` says the last of them raised.
Clears(setCalls, setErr, issued, failed) ==
    /\ setErr = NoError
    /\ \/ issued > Len(setCalls)
       \/ issued = Len(setCalls) /\ ~failed

\* create_document.  failAt = 0: no remote call fails; failAt = n: the n-th
\* remote call raises `fault`.
create_document(korder, border, failAt, fault) ==
    LET setCalls == SetCalls(field_values, block_field_values, korder, border)
        setErr == SetError(block_field_values, border)
        all == IF setErr = NoError
               THEN setCalls \o <<Call("CreateDocument", <<>>)>>
               ELSE setCalls
        issued == IF failAt = 0 THEN Len(all) ELSE failAt
    IN  /\ korder \in Orders(DOMAIN field_values)
        /\ border \in Orders(DOMAIN block_field_values)
        /\ failAt \in 0..Len(all)
        /\ op' = "create_document"
        /\ args' = <<>>
        /\ calls' = Issued(all, issued, failAt, fault)
        /\ raised' = IF failAt > 0 THEN fault ELSE setErr
        /\ IF Clears(setCalls, setErr, issued, failAt > 0)
           THEN /\ field_values' = EmptyDict
                /\ block_field_values' = EmptyDict
           ELSE UNCHANGED staging

\* -------------------------------------------------------------- behaviours

Init ==
    /\ field_values = EmptyDict
    /\ block_field_values = EmptyDict
    /\ op = "__init__"
    /\ args = <<>>
    /\ calls = <<>>
    /\ raised = NoError

\* The longest remote-call sequence of one create_document.
MaxCalls == Cardinality(Keys) + 2

RECURSIVE RowCount(_, _)
RowCount(bv, keys) ==
    IF keys = {} THEN 0
    ELSE LET k == CHOOSE x \in keys : TRUE
         IN  Len(bv[k]) + RowCount(bv, keys \ {k})

\* The model's bound on what is staged at one time.
Bounded == RowCount(block_field_values, DOMAIN block_field_values) <= MaxRows

AssignValueStep == \E key \in Keys, value \in Scalars : assign_value(key, value)

AssignBlockStep ==
    \E key \in Keys, values \in RowLists : assign_block(key, values) /\ Bounded'

AssignStep ==
    \E data \in AssignData :
        \E order \in (IF data.type = "dict" THEN Orders(DOMAIN data.v) ELSE {<<>>}) :
            assign(data, order) /\ Bounded'

CreateDocumentStep ==
    \E korder \in Orders(DOMAIN field_values),
       border \in Orders(DOMAIN block_field_values) :
        \/ create_document(korder, border, 0, NoError)
        \/ \E failAt \in 1..MaxCalls, fault \in Faults :
               create_document(korder, border, failAt, fault)

NextStaging ==
    \/ AssignValueStep
    \/ AssignBlockStep
    \/ AssignStep
    \/ CreateDocumentStep

\* The staging methods and create_document.
SpecStaging == Init /\ [][NextStaging]_vars

\* ------------------------------------------------------ formats and paths

DOC == <<"D","O","C">>

DOCX == <<"D","O","C","X">>

RTF == <<"R","T","F">>

TXD == <<"T","X","D">>

HTML == <<"H","T","M","L">>

PDF == <<"P","D","F">>

TXT == <<"T","X","T">>

BMP == <<"B","M","P">>

GIF == <<"G","I","F">>

JPG == <<"J","P","G">>

PNG == <<"P","N","G">>

TIFF == <<"T","I","F","F">>

ALLOWED_TEMPLATE_EXT == {DOC, DOCX, RTF, TXD}

ALLOWED_DOCUMENT_EXT == {DOC, DOCX, HTML, PDF, TXD, TXT}

ALLOWED_IMAGE_EXT == {BMP, GIF, JPG, PNG, TIFF}

ZoomMin == 20

ZoomMax == 400

\* str.rfind(c), 1-based: 0 when c does not occur.
LastIndex(p, c) ==
    IF \E n \in 1..Len(p) : p[n] = c
    THEN CHOOSE n \in 1..Len(p) :
            p[n] = c /\ \A m \in (n + 1)..Len(p) : p[m] # c
    ELSE 0

\* os.path.splitext(p)[1]: the text from the last dot on, when that dot
\* comes after the last '/' and after a character of the file name that is
\* not a dot; otherwise empty.
SplitExt(p) ==
    LET sepIndex == LastIndex(p, "/")
        dotIndex == LastIndex(p, ".")
    IN  IF /\ dotIndex > sepIndex
           /\ \E n \in (sepIndex + 1)..(dotIndex - 1) : p[n] # "."
        THEN SubSeq(p, dotIndex, Len(p))
        ELSE <<>>

\* _get_ext: splitext(path)[1][1:]
_get_ext(path) ==
    LET e == SplitExt(path) IN IF e = <<>> THEN <<>> ELSE Tail(e)

ValidationMessage == "That format isn't allowed - please pick one of these: %s"

\* _validate_extension: the exception it raises, or NoError.  (Line 276 of
\* the source lacks the closing parenthesis of this raise; the model takes
\* the statement as the raise it spells.)
_validate_extension(extension, allowed_extensions) ==
    IF extension \notin allowed_extensions
    THEN LiveDocxError(ValidationMessage)
    ELSE NoError

\* ---------------------------------------------------------- remote methods

\* The effect of a method that leaves the staging mappings alone.
Done(name, a, issued, err) ==
    /\ op' = name
    /\ args' = a
    /\ calls' = issued
    /\ raised' = err
    /\ UNCHANGED staging

\* What the service answers to a call: a fault, or a value.
Answer(fault, value) == [fault |-> fault, value |-> value]

\* TemplateExists answers with a boolean.
ExistsAnswers ==
    {Answer(NoError, b) : b \in {"True", "False"}} \cup {Answer(f, "") : f \in Faults}

template_exists(filename, exists) ==
    LET query == <<Answered(Call("TemplateExists", <<filename>>), exists)>>
    IN  IF exists.fault # NoError
        THEN Done("template_exists", <<filename>>, query, exists.fault)
        ELSE Done("template_exists", <<filename>>, query, NoError)

\* delete_template that deletes without looking at the answer.
delete_template_unchecked(filename, exists, fault) ==
    LET query == <<Answered(Call("TemplateExists", <<filename>>), exists)>>
    IN  IF exists.fault # NoError
        THEN Done("delete_template", <<filename>>, query, exists.fault)
        ELSE Done("delete_template", <<filename>>,
                  query \o <<Outcome(Call("DeleteTemplate", <<filename>>), fault)>>,
                  fault)

\* delete_template, download_template and set_remote_template first call
\* template_exists(filename): `exists` is the service's answer to it, and
\* `fault` what the remote call that follows raises (NoError: nothing).
delete_template(filename, exists, fault) ==
    LET query == <<Answered(Call("TemplateExists", <<filename>>), exists)>>
    IN  IF exists.fault # NoError
        THEN Done("delete_template", <<filename>>, query, exists.fault)
        ELSE IF exists.value = "True"
        THEN Done("delete_template", <<filename>>,
                  query \o <<Outcome(Call("DeleteTemplate", <<filename>>), fault)>>,
                  fault)
        ELSE Done("delete_template", <<filename>>, query,
                  LiveDocxError("Template \"%s\" not exists and it cannot be deleted"))

download_template(filename, exists, fault) ==
    LET query == <<Answered(Call("TemplateExists", <<filename>>), exists)>>
    IN  IF exists.fault # NoError
        THEN Done("download_template", <<filename>>, query, exists.fault)
        ELSE IF exists.value = "True"
        THEN Done("download_template", <<filename>>,
                  query \o <<Outcome(Call("DownloadTemplate", <<filename>>), fault)>>,
                  fault)
        ELSE Done("download_template", <<filename>>, query,
                  LiveDocxError("Template \"%s\" not exists"))

set_remote_template(filename, exists, fault) ==
    LET query == <<Answered(Call("TemplateExists", <<filename>>), exists)>>
    IN  IF exists.fault # NoError
        THEN Done("set_remote_template", <<filename>>, query, exists.fault)
        ELSE IF exists.value = "True"
        THEN Done("set_remote_template", <<filename>>,
                  query \o <<Outcome(Call("SetRemoteTemplate", <<filename>>), fault)>>,
                  fault)
        ELSE Done("set_remote_template", <<filename>>, query,
                  LiveDocxError("Remote template \"%s\" not exists"))

\* Python None, an int, and a tuple, tagged by type.
PyNone == [type |-> "None", v |-> 0]

PyInt(n) == [type |-> "int", v |-> n]

PyTuple(t) == [type |-> "tuple", t |-> t]

\* A range test that looks at the first bound only.
NoneInFirst(pages) == pages.t[1].type = "None"

\* `None in pages`
NoneIn(pages) == \E n \in 1..Len(pages.t) : pages.t[n].type = "None"

PartialRange == LiveDocxError("Both values from_page and to_page must be set")

\* What a remote query returns: a response object, or None.
DataAnswers ==
    {Answer(NoError, v) : v \in {"response", "None"}}
        \cup {Answer(f, "") : f \in Faults}

AttributeError ==
    [type |-> "AttributeError", msg |-> "'NoneType' object has no attribute 'string'"]

InvalidImageFormat == LiveDocxError("Invalid image format. Valid formats are: %s")

get_bitmaps(zoom, format, pages, answer) ==
    LET a == <<zoom, format, pages>>
        \* line 113: bitmaps.string, of whatever the service returned
        after == IF answer.fault # NoError THEN answer.fault
                 ELSE IF answer.value = "None" THEN AttributeError
                 ELSE NoError
    IN  IF ~(ZoomMin <= zoom /\ zoom <= ZoomMax)
        THEN Done("get_bitmaps", a, <<>>,
                  LiveDocxError("Zoom factor value must be between 20 and 400"))
        ELSE IF format \notin ALLOWED_IMAGE_EXT
        THEN Done("get_bitmaps", a, <<>>, InvalidImageFormat)
        ELSE IF pages.type = "None"
        THEN Done("get_bitmaps", a,
                  <<Answered(Call("GetAllBitmaps", <<zoom, format>>), answer)>>, after)
        ELSE IF ~NoneIn(pages)
        THEN Done("get_bitmaps", a,
                  <<Answered(Call("GetBitmaps",
                                  <<pages.t[1], pages.t[2], zoom, format>>), answer)>>,
                  after)
        ELSE Done("get_bitmaps", a, <<>>, PartialRange)

get_metafiles(pages, answer) ==
    IF pages.type = "None"
    THEN Done("get_metafiles", <<pages>>,
              <<Answered(Call("GetAllMetafiles", <<>>), answer)>>, answer.fault)
    ELSE IF ~NoneIn(pages)
    THEN Done("get_metafiles", <<pages>>,
              <<Answered(Call("GetMetafiles", <<pages.t[1], pages.t[2]>>), answer)>>,
              answer.fault)
    ELSE Done("get_metafiles", <<pages>>, <<>>, PartialRange)

retrieve_document(format, fault) ==
    LET invalid == _validate_extension(Upper(format), ALLOWED_DOCUMENT_EXT)
    IN  IF invalid # NoError
        THEN Done("retrieve_document", <<format>>, <<>>, invalid)
        ELSE Done("retrieve_document", <<format>>,
                  <<Outcome(Call("RetrieveDocument", <<Upper(format)>>), fault)>>, fault)

\* open(filename).read() of a file that cannot be read.
IOError == [type |-> "IOError", msg |-> "No such file or directory"]

\* The base64 text of a local file's content.
Base64File(path) == <<"base64", path>>

set_local_template(filename, readable, fault) ==
    LET extension == _get_ext(filename)
        invalid == _validate_extension(Upper(extension), ALLOWED_TEMPLATE_EXT)
        a == <<filename, readable>>
    IN  IF invalid # NoError
        THEN Done("set_local_template", a, <<>>, invalid)
        ELSE IF ~readable
        THEN Done("set_local_template", a, <<>>, IOError)
        ELSE Done("set_local_template", a,
                  <<Outcome(Call("SetLocalTemplate",
                                 <<Base64File(filename), Upper(extension)>>), fault)>>,
                  fault)

ExtensionMismatch ==
    LiveDocxError("Local template extension and remote name extension must match")

\* upload_template that compares the two extensions ignoring case.
upload_template_ignore_case(path, filename, readable, fault) ==
    LET local_ext == _get_ext(path)
        invalid == _validate_extension(Upper(local_ext), ALLOWED_TEMPLATE_EXT)
        a == <<path, filename, readable>>
    IN  IF ~readable
        THEN Done("upload_template", a, <<>>, IOError)
        ELSE IF invalid # NoError
        THEN Done("upload_template", a, <<>>, invalid)
        ELSE IF Upper(local_ext) # Upper(_get_ext(filename))
        THEN Done("upload_template", a, <<>>, ExtensionMismatch)
        ELSE Done("upload_template", a,
                  <<Outcome(Call("UploadTemplate", <<Base64File(path), filename>>),
                            fault)>>,
                  fault)

upload_template(path, filename, readable, fault) ==
    LET local_ext == _get_ext(path)
        invalid == _validate_extension(Upper(local_ext), ALLOWED_TEMPLATE_EXT)
        a == <<path, filename, readable>>
    IN  IF ~readable
        THEN Done("upload_template", a, <<>>, IOError)
        ELSE IF invalid # NoError
        THEN Done("upload_template", a, <<>>, invalid)
        ELSE IF local_ext # _get_ext(filename)
        THEN Done("upload_template", a, <<>>, ExtensionMismatch)
        ELSE Done("upload_template", a,
                  <<Outcome(Call("UploadTemplate", <<Base64File(path), filename>>),
                            fault)>>,
                  fault)

InvalidLogin == LiveDocxError("Invalid username/password combination")

\* login: `except WebFault` catches every SOAP fault of the LogIn call.
login(username, password, fault) ==
    LET attempt == <<Outcome(Call("LogIn", <<username, password>>), fault)>>
    IN  IF fault.type = "WebFault"
        THEN Done("login", <<username, password>>, attempt, InvalidLogin)
        ELSE Done("login", <<username, password>>, attempt, fault)

\* ----------------------------------------------------- inputs of the model

TemplateNames == {"present.doc", "missing.doc"}

Zooms == {ZoomMin - 1, ZoomMin, 100, ZoomMax, ZoomMax + 1}

Formats ==
    { PDF, <<"p","d","f">>, <<"P","d","f">>, DOCX, <<"d","o","c","x">>,
      PNG, <<"p","n","g">>, TIFF, <<"j","p","g">>, RTF, <<"r","t","f">>,
      <<"x","y","z">>, <<>> }

PageBounds == {PyNone, PyInt(1), PyInt(2)}

PageRanges == {PyNone} \cup {PyTuple(<<f, t>>) : f \in PageBounds, t \in PageBounds}

Paths ==
    { <<"r",".","d","o","c","x">>, <<"r",".","D","O","C","X">>,
      <<"/","t","/","r",".","d","o","c">>, <<"r",".","r","t","f">>,
      <<"r",".","p","d","f">>, <<"r",".","t","x","t">>,
      <<"a",".","b",".","T","x","d">>,
      <<"r">>, <<".","d","o","c">>, <<"t",".","d","o","c","/","r">>, <<"r",".">> }

Users == {"alice"}

Passwords == {"secret", "wrong"}

TemplateExistsStep ==
    \E filename \in TemplateNames, exists \in ExistsAnswers :
        template_exists(filename, exists)

DeleteTemplateStep ==
    \E filename \in TemplateNames, exists \in ExistsAnswers,
       fault \in {NoError} \cup Faults :
        delete_template(filename, exists, fault)

DownloadTemplateStep ==
    \E filename \in TemplateNames, exists \in ExistsAnswers,
       fault \in {NoError} \cup Faults :
        download_template(filename, exists, fault)

SetRemoteTemplateStep ==
    \E filename \in TemplateNames, exists \in ExistsAnswers,
       fault \in {NoError} \cup Faults :
        set_remote_template(filename, exists, fault)

GetBitmapsStep ==
    \E zoom \in Zooms, format \in Formats, pages \in PageRanges,
       answer \in DataAnswers :
        get_bitmaps(zoom, format, pages, answer)

GetMetafilesStep ==
    \E pages \in PageRanges, answer \in DataAnswers : get_metafiles(pages, answer)

RetrieveDocumentStep ==
    \E format \in Formats, fault \in {NoError} \cup Faults :
        retrieve_document(format, fault)

SetLocalTemplateStep ==
    \E filename \in Paths, readable \in BOOLEAN, fault \in {NoError} \cup Faults :
        set_local_template(filename, readable, fault)

UploadTemplateStep ==
    \E path \in Paths, filename \in Paths, readable \in BOOLEAN,
       fault \in {NoError} \cup Faults :
        upload_template(path, filename, readable, fault)

LoginStep ==
    \E username \in Users, password \in Passwords,
       fault \in {NoError} \cup LoginFaults :
        login(username, password, fault)

NextRemote ==
    \/ TemplateExistsStep
    \/ DeleteTemplateStep
    \/ DownloadTemplateStep
    \/ SetRemoteTemplateStep
    \/ GetBitmapsStep
    \/ GetMetafilesStep
    \/ RetrieveDocumentStep
    \/ SetLocalTemplateStep
    \/ UploadTemplateStep
    \/ LoginStep

\* The methods that validate their arguments and call the service; none of
\* them reads or writes the staging mappings.
SpecRemote == Init /\ [][NextRemote]_vars

\* ------------------------------------------------------- reading the log

FaultTypes == {"WebFault", "TransportError"}

\* The places of the log where operation `name` was called.
CallsOf(cs, name) == {n \in 1..Len(cs) : cs[n].name = name}

\* No remote call of the log raised.
NoFault(cs) == \A n \in 1..Len(cs) : cs[n].fault = NoError

LastCall(cs) == cs[Len(cs)]

\* ------------------------------------------------------------- properties

\* C1: after create_document returns, both staging mappings are empty,
\* whatever was staged; and a create_document that directly follows a
\* returned create_document issues exactly one remote call, CreateDocument
\* (no SetFieldValues, no SetBlockFieldValues).
C1_ClearedAfterCreate ==
    [][ /\ (op' = "create_document" /\ raised' = NoError)
            => (DOMAIN field_values' = {} /\ DOMAIN block_field_values' = {})
        /\ (op = "create_document" /\ raised = NoError /\ op' = "create_document")
            => (Len(calls') = 1 /\ calls'[1].name = "CreateDocument") ]_vars

\* C1 witness: create_document has returned after submitting staged values,
\* and nothing is staged any more.
C1_Witness ==
    /\ op = "create_document"
    /\ raised = NoError
    /\ CallsOf(calls, "SetFieldValues") # {}
    /\ CallsOf(calls, "SetBlockFieldValues") # {}
    /\ DOMAIN field_values = {}
    /\ DOMAIN block_field_values = {}

\* The call sequence C2 describes for staged mappings fv and bv.
ExpectedOrder(cs, fv, bv) ==
    LET nf == IF DOMAIN fv # {} THEN 1 ELSE 0
        nb == Cardinality(DOMAIN bv)
    IN  /\ Len(cs) = nf + nb + 1
        /\ nf = 1 => cs[1].name = "SetFieldValues"
        /\ \A n \in (nf + 1)..(nf + nb) : cs[n].name = "SetBlockFieldValues"
        /\ \A k \in DOMAIN bv :
              Cardinality({n \in (nf + 1)..(nf + nb) : cs[n].args[1] = k}) = 1
        /\ cs[Len(cs)].name = "CreateDocument"

\* C2: for every staged state, a create_document none of whose remote
\* calls fails issues SetFieldValues once iff fields are staged, then one
\* SetBlockFieldValues per staged block name, then CreateDocument last,
\* also when a block is staged with an empty row list.
C2_CallOrder ==
    [][ (op' = "create_document" /\ NoFault(calls'))
            => ExpectedOrder(calls', field_values, block_field_values) ]_vars

\* All rows of a block have the column names of its first row.
SameColumns(block) ==
    \A m \in 1..Len(block) :
        {block[m][j][1] : j \in 1..Len(block[m])}
            = {block[1][j][1] : j \in 1..Len(block[1])}

\* The value a row dict holds under a column name.
RowGet(row, c) == row[CHOOSE n \in 1..Len(row) : row[n][1] = c][2]

\* The payload C3 describes: the first row's column names, then every
\* row's values in the order of those names.
AlignedData(block) ==
    LET names == RowKeys(block[1])
    IN  <<names>> \o [m \in 1..Len(block) |->
                        [j \in 1..Len(names) |-> RowGet(block[m], names[j])]]

\* C3: every SetBlockFieldValues call of create_document, for a block whose
\* rows share their column names, carries the first row's column names
\* followed by each row's values in the order of those names, whatever the
\* key order of the later rows.
C3_RowsAligned ==
    [][ op' = "create_document"
            => \A n \in CallsOf(calls', "SetBlockFieldValues") :
                  LET block == block_field_values[calls'[n].args[1]]
                  IN  SameColumns(block)
                        => calls'[n].args[2] = AlignedData(block) ]_vars

\* C4: the format check is case-insensitive in every operation:
\* retrieve_document, get_bitmaps (zoom valid), upload_template (file
\* readable) and set_local_template raise the format error iff the
\* upper-cased format or extension is outside the operation's allowed set.
C4_CaseInsensitiveFormats ==
    /\ op = "retrieve_document"
        => (raised = LiveDocxError(ValidationMessage)
                <=> Upper(args[1]) \notin ALLOWED_DOCUMENT_EXT)
    /\ (op = "get_bitmaps" /\ ZoomMin <= args[1] /\ args[1] <= ZoomMax)
        => (raised = InvalidImageFormat
                <=> Upper(args[2]) \notin ALLOWED_IMAGE_EXT)
    /\ (op = "upload_template" /\ args[3])
        => (raised = LiveDocxError(ValidationMessage)
                <=> Upper(_get_ext(args[1])) \notin ALLOWED_TEMPLATE_EXT)
    /\ op = "set_local_template"
        => (raised = LiveDocxError(ValidationMessage)
                <=> Upper(_get_ext(args[1])) \notin ALLOWED_TEMPLATE_EXT)

BothSet(pages) ==
    pages.type = "tuple" /\ pages.t[1].type # "None" /\ pages.t[2].type # "None"

OneUnset(pages) ==
    pages.type = "tuple" /\ (pages.t[1].type = "None") # (pages.t[2].type = "None")

\* The page-range rule of C5 for an operation whose remote calls are
\* allName (with arguments rest) and rangeName (the two bounds, then rest).
RangeRule(pages, allName, rangeName, rest) ==
    /\ pages.type = "None"
        => (Len(calls) = 1 /\ calls[1].name = allName /\ calls[1].args = rest)
    /\ BothSet(pages)
        => /\ Len(calls) = 1
           /\ calls[1].name = rangeName
           /\ calls[1].args = <<pages.t[1], pages.t[2]>> \o rest
    /\ OneUnset(pages)
        => (calls = <<>> /\ raised = PartialRange)

\* C5: get_bitmaps (zoom and format accepted) and get_metafiles issue
\* exactly the "all" call when pages is absent, exactly the "range" call
\* with the pair as fromPage and toPage when both bounds are set, and raise
\* the partial-range error without a remote call when one bound is unset.
C5_PageRange ==
    /\ (/\ op = "get_bitmaps"
        /\ ZoomMin <= args[1] /\ args[1] <= ZoomMax
        /\ args[2] \in ALLOWED_IMAGE_EXT)
        => RangeRule(args[3], "GetAllBitmaps", "GetBitmaps", <<args[1], args[2]>>)
    /\ op = "get_metafiles"
        => RangeRule(args[1], "GetAllMetafiles", "GetMetafiles", <<>>)

\* C5 witness: get_bitmaps was given a pair whose second bound is unset and
\* raised the partial-range error.
C5_Witness ==
    /\ op = "get_bitmaps"
    /\ args[3].type = "tuple"
    /\ args[3].t[1].type = "int"
    /\ args[3].t[2].type = "None"
    /\ raised = PartialRange

\* The remote call each existence-guarded operation is about.
GuardedCall(name) ==
    CASE name = "delete_template" -> "DeleteTemplate"
      [] name = "download_template" -> "DownloadTemplate"
      [] name = "set_remote_template" -> "SetRemoteTemplate"

\* C6: delete_template, set_remote_template and download_template issue one
\* TemplateExists query for the filename first; the guarded remote call is
\* issued only after that query answered true, and when it answered false
\* the operation raises LiveDocxError and issues no further call.
C6_ExistsFirst ==
    op \in {"delete_template", "download_template", "set_remote_template"}
        => /\ Len(calls) \in {1, 2}
           /\ calls[1].name = "TemplateExists"
           /\ calls[1].args = args
           /\ CallsOf(calls, "TemplateExists") = {1}
           /\ Len(calls) = 2
                => /\ calls[1].fault = NoError /\ calls[1].ret = "True"
                   /\ calls[2].name = GuardedCall(op)
                   /\ calls[2].args = args
           /\ (calls[1].fault = NoError /\ calls[1].ret = "False")
                => (Len(calls) = 1 /\ raised.type = "LiveDocxError")

\* C6 witness: delete_template asked, was told the template does not exist,
\* and raised.
C6_Witness ==
    /\ op = "delete_template"
    /\ Len(calls) = 1
    /\ calls[1].ret = "False"
    /\ raised.type = "LiveDocxError"

\* C7: upload_template of a readable file with an allowed extension issues
\* UploadTemplate iff the two extensions are equal as exact strings; when
\* they differ, even only in letter case, it raises the extension-mismatch
\* error and issues no remote call.
C7_ExactExtensionMatch ==
    (/\ op = "upload_template"
     /\ args[3]
     /\ Upper(_get_ext(args[1])) \in ALLOWED_TEMPLATE_EXT)
        => /\ CallsOf(calls, "UploadTemplate") # {}
                <=> _get_ext(args[1]) = _get_ext(args[2])
           /\ _get_ext(args[1]) # _get_ext(args[2])
                => (calls = <<>> /\ raised = ExtensionMismatch)

\* C7 witness: the two extensions differ in letter case only, and
\* upload_template raised the mismatch error.
C7_Witness ==
    /\ op = "upload_template"
    /\ _get_ext(args[1]) # _get_ext(args[2])
    /\ Upper(_get_ext(args[1])) = Upper(_get_ext(args[2]))
    /\ raised = ExtensionMismatch

AuthenticationFault == [type |-> "WebFault", msg |-> "authentication failed"]

\* C8: login turns only the authentication fault of LogIn into the
\* LiveDocxError with the fixed message; every other fault the transport
\* raises during LogIn reaches the caller as it is.
C8_OnlyAuthenticationTranslated ==
    op = "login"
        => /\ calls[1].fault = AuthenticationFault => raised = InvalidLogin
           /\ (calls[1].fault # NoError /\ calls[1].fault # AuthenticationFault)
                => raised = calls[1].fault

\* C9: assign(data) with a dict stores every list value in the block
\* mapping and every other value in the field mapping under its key,
\* replacing what was there, with no remote call; assign of anything that
\* is not a dict raises the type-mismatch error and changes neither mapping.
C9_AssignDispatch ==
    [][ op' = "assign"
            => LET data == args'[1]
               IN  IF data.type = "dict"
                   THEN /\ raised' = NoError
                        /\ calls' = <<>>
                        /\ \A k \in DOMAIN data.v :
                              IF data.v[k].type = "list"
                              THEN /\ k \in DOMAIN block_field_values'
                                   /\ block_field_values'[k] = data.v[k].v
                              ELSE /\ k \in DOMAIN field_values'
                                   /\ field_values'[k] = data.v[k].v
                   ELSE /\ raised'.type = "ValueError"
                        /\ calls' = <<>>
                        /\ UNCHANGED staging ]_vars

\* C9 witness: assign was given a dict with a list value and a scalar
\* value, and both are staged where they belong.
C9_Witness ==
    /\ op = "assign"
    /\ raised = NoError
    /\ args[1].type = "dict"
    /\ \E k1, k2 \in DOMAIN args[1].v :
          /\ args[1].v[k1].type = "list" /\ args[1].v[k1].v # <<>>
          /\ args[1].v[k2].type = "str"
          /\ k1 \in DOMAIN block_field_values
          /\ k2 \in DOMAIN field_values

\* The last remote call of the log is a SetFieldValues or
\* SetBlockFieldValues call that raised.
SetCallFailed(cs) ==
    /\ cs # <<>>
    /\ LastCall(cs).name \in {"SetFieldValues", "SetBlockFieldValues"}
    /\ LastCall(cs).fault # NoError

\* The <<name, value>> pairs a SetFieldValues call carries.
SentFields(call) ==
    {<<call.args[1][n], call.args[2][n]>> : n \in 1..Len(call.args[1])}

\* C10: when a SetFieldValues or SetBlockFieldValues call of create_document
\* fails, the error reaches the caller, CreateDocument is not issued and
\* both staging mappings keep their contents; the create_document that
\* follows submits those same staged values again.
C10_FailureKeepsStaging ==
    [][ /\ (op' = "create_document" /\ SetCallFailed(calls'))
            => /\ raised' = LastCall(calls').fault
               /\ CallsOf(calls', "CreateDocument") = {}
               /\ UNCHANGED staging
        /\ (/\ op = "create_document" /\ SetCallFailed(calls)
            /\ op' = "create_document" /\ NoFault(calls') /\ raised' = NoError)
            => /\ DOMAIN field_values # {}
                    => /\ calls'[1].name = "SetFieldValues"
                       /\ SentFields(calls'[1])
                            = {<<k, field_values[k]>> : k \in DOMAIN field_values}
               /\ \A k \in DOMAIN block_field_values :
                     \E n \in CallsOf(calls', "SetBlockFieldValues") :
                        /\ calls'[n].args[1] = k
                        /\ Len(calls'[n].args[2]) = Len(block_field_values[k]) + 1 ]_vars

\* C10 witness: a SetBlockFieldValues call of create_document failed after
\* SetFieldValues went through, and fields and blocks are still staged.
C10_Witness ==
    /\ op = "create_document"
    /\ SetCallFailed(calls)
    /\ LastCall(calls).name = "SetBlockFieldValues"
    /\ raised.type \in FaultTypes
    /\ DOMAIN field_values # {}
    /\ DOMAIN block_field_values # {}

====
